---- MODULE Spec2Model ----
(***************************************************************************)
(* Model of src/app.py: the Flask service with the /analyze morphology     *)
(* proxy and the /tasrif generator.                                        *)
(*                                                                         *)
(* Text is modelled as a sequence of one-character strings.  Arabic        *)
(* characters are written in Buckwalter transliteration, one ASCII         *)
(* character per code point (fatha "a", damma "u", kasra "i", sukun "o",   *)
(* fathatan "F", dammatan "N", shadda "~", alef "A", ...), so that string  *)
(* concatenation and indexing are those of the source.                     *)
(***************************************************************************)
EXTENDS Integers, Sequences, FiniteSets, TLC

VARIABLES phase, req, resp, posts, fn

vars == <<phase, req, resp, posts, fn>>

(***************************************************************************)
(* Bounds of the model.                                                    *)
(***************************************************************************)
MaxRootLen == 4
MaxTextLen == 2
MaxInnerLen == 3

(***************************************************************************)
(* JSON values of a request body: a key is absent, holds a string, or      *)
(* holds a value that is not a string (a number, null, a list).            *)
(***************************************************************************)
Absent == [t |-> "absent", s |-> <<>>]
NonStr == [t |-> "other", s |-> <<>>]
Str(s) == [t |-> "str", s |-> s]

SeqsUpTo(A, n) == UNION {[1..k -> A] : k \in 0..n}

(***************************************************************************)
(* Python string helpers.                                                  *)
(***************************************************************************)
\* str.isspace() per character, over the characters of the model
IsSpaceChar(c) == c \in {" ", "\t", "\n"}

RECURSIVE LStrip(_)
LStrip(s) ==
  IF s # <<>> /\ IsSpaceChar(Head(s)) THEN LStrip(Tail(s)) ELSE s

RECURSIVE RStrip(_)
RStrip(s) ==
  IF s # <<>> /\ IsSpaceChar(s[Len(s)]) THEN RStrip(SubSeq(s, 1, Len(s) - 1)) ELSE s

\* str.strip(): leading and trailing whitespace removed
Strip(s) == RStrip(LStrip(s))

StartsWith(s, p) == Len(s) >= Len(p) /\ SubSeq(s, 1, Len(p)) = p

\* str.replace(old, ''), old non-empty: non-overlapping occurrences, left to right
RECURSIVE Remove(_, _)
Remove(s, old) ==
  IF s = <<>> THEN <<>>
  ELSE IF StartsWith(s, old) THEN Remove(SubSeq(s, Len(old) + 1, Len(s)), old)
  ELSE <<Head(s)>> \o Remove(Tail(s), old)

(***************************************************************************)
(* get_rule_by_root                                                        *)
(***************************************************************************)
KnownRoots ==
  { <<"n","S","r">>, <<"k","t","b">>,
    <<"D","r","b">>, <<"j","l","s">>,
    <<"f","t","H">>, <<"*","h","b">>,
    <<"E","l","m">>, <<"$","r","b">>,
    <<"k","r","m">>, <<"H","s","n">>,
    <<"H","s","b">>, <<"w","r","v">> }

rule_map ==
  [r \in KnownRoots |->
     CASE r = <<"n","S","r">> -> 1 [] r = <<"k","t","b">> -> 1
       [] r = <<"D","r","b">> -> 2 [] r = <<"j","l","s">> -> 2
       [] r = <<"f","t","H">> -> 3 [] r = <<"*","h","b">> -> 3
       [] r = <<"E","l","m">> -> 4 [] r = <<"$","r","b">> -> 4
       [] r = <<"k","r","m">> -> 5 [] r = <<"H","s","n">> -> 5
       [] r = <<"H","s","b">> -> 6 [] r = <<"w","r","v">> -> 6]

\* a plausible slip: the lookup matches on the first three characters only
get_rule_by_prefix(root) ==
  IF Len(root) >= 3 /\ SubSeq(root, 1, 3) \in DOMAIN rule_map
  THEN rule_map[SubSeq(root, 1, 3)] ELSE 1

\* rule_map.get(root, 1)
get_rule_by_root(root) ==
  IF root \in DOMAIN rule_map THEN rule_map[root] ELSE 1

(***************************************************************************)
(* generate_tasrif_isim                                                    *)
(***************************************************************************)
noun_pattern(r1, r2, r3) ==
  [ singular         |-> <<r1, "a", "A", r2, "i", r3, "N">>,
    dual_masculine   |-> <<r1, "a", "A", r2, "i", r3, "a", "A", "n", "i">>,
    dual_feminine    |-> <<r1, "a", "A", r2, "i", r3, "a", "t", "a", "A", "n", "i">>,
    plural_masculine |-> <<r1, "a", "A", r2, "i", r3, "u", "w", "n", "a">>,
    plural_feminine  |-> <<r1, "a", "A", r2, "i", r3, "a", "A", "t", "N">>,
    broken_plural    |-> <<r1, "u", r2, "a", "~", "A", r3, "N">> ]

isim_data(root) ==
  LET selected_pattern == noun_pattern(root[1], root[2], root[3]) IN
  << <<"Almfrd (Singular)", selected_pattern.singular>>,
     <<"AlmvnY Alm*kr (Dual Masculine)", selected_pattern.dual_masculine>>,
     <<"AlmvnY Alm&nv (Dual Feminine)", selected_pattern.dual_feminine>>,
     <<"AljmE Alm*kr AlsAlm (Sound Masculine Plural)", selected_pattern.plural_masculine>>,
     <<"AljmE Alm&nv AlsAlm (Sound Feminine Plural)", selected_pattern.plural_feminine>>,
     <<"jmE Altksyr (Broken Plural)", selected_pattern.broken_plural>> >>

\* a plausible slip: the length guard is off by one
generate_tasrif_isim_le(root) ==
  IF Len(root) <= 3 THEN <<>> ELSE isim_data(root)

generate_tasrif_isim(root) ==
  IF Len(root) < 3 THEN <<>> ELSE isim_data(root)

(***************************************************************************)
(* generate_tasrif, mode "istilahi": the three branches on rule_number     *)
(***************************************************************************)
istilahi_rule1(r1, r2, r3) ==
  [ past        |-> <<r1, "a", r2, "a", r3, "a">>,
    mudari      |-> <<"y", "a", r1, "o", r2, "u", r3, "u">>,
    masdar      |-> <<r1, "a", r2, "o", r3, "F", "A">>,
    masdar_mimi |-> <<"m", "a", r1, "o", r2, "a", r3, "F", "A">>,
    ism_fael    |-> <<r1, "a", "A", r2, "i", r3, "N">>,
    ism_mafool  |-> <<"m", "a", r1, "o", r2, "u", "w", r3, "N">>,
    amr         |-> <<"A", "u", r1, "o", r2, "u", r3, "o">>,
    nahi        |-> <<"l", "a", "A", " ", "t", "a", r1, "o", r2, "u", r3, "o">>,
    zaman       |-> <<"m", "a", r1, "o", r2, "a", r3, "N">>,
    makan       |-> <<"m", "a", r1, "o", r2, "a", r3, "N">>,
    alat        |-> <<"m", "i", r1, "o", r2, "a", r3, "N">> ]

istilahi_rule2(r1, r2, r3) ==
  [ past        |-> <<r1, "a", r2, "a", r3, "a">>,
    mudari      |-> <<"y", "a", r1, "o", r2, "i", r3, "u">>,
    masdar      |-> <<r1, "a", r2, "o", r3, "F", "A">>,
    masdar_mimi |-> <<"m", "a", r1, "o", r2, "a", r3, "F", "A">>,
    ism_fael    |-> <<r1, "a", "A", r2, "i", r3, "N">>,
    ism_mafool  |-> <<"m", "a", r1, "o", r2, "u", "w", r3, "N">>,
    amr         |-> <<"A", "i", r1, "o", r2, "i", r3, "o">>,
    nahi        |-> <<"l", "a", "A", " ", "t", "a", r1, "o", r2, "i", r3, "o">>,
    zaman       |-> <<"m", "a", r1, "o", r2, "i", r3, "N">>,
    makan       |-> <<"m", "a", r1, "o", r2, "i", r3, "N">>,
    alat        |-> <<"m", "i", r1, "o", r2, "a", r3, "N">> ]

\* a plausible slip: the fallback branch filled in from the rule-2 block
istilahi_else_kasra(r1, r2, r3) ==
  [ past        |-> <<r1, "a", r2, "a", r3, "a">>,
    mudari      |-> <<"y", "a", r1, "o", r2, "i", r3, "u">>,
    masdar      |-> <<r1, "a", r2, "o", r3, "F", "A">>,
    masdar_mimi |-> <<"m", "a", r1, "o", r2, "a", r3, "F", "A">>,
    ism_fael    |-> <<r1, "a", "A", r2, "i", r3, "N">>,
    ism_mafool  |-> <<"m", "a", r1, "o", r2, "u", "w", r3, "N">>,
    amr         |-> <<"A", "i", r1, "o", r2, "i", r3, "o">>,
    nahi        |-> <<"l", "a", "A", " ", "t", "a", r1, "o", r2, "i", r3, "o">>,
    zaman       |-> <<"m", "a", r1, "o", r2, "i", r3, "N">>,
    makan       |-> <<"m", "a", r1, "o", r2, "i", r3, "N">>,
    alat        |-> <<"m", "i", r1, "o", r2, "a", r3, "N">> ]

\* the else branch ("Default rule 1 pattern")
istilahi_else(r1, r2, r3) ==
  [ past        |-> <<r1, "a", r2, "a", r3, "a">>,
    mudari      |-> <<"y", "a", r1, "o", r2, "u", r3, "u">>,
    masdar      |-> <<r1, "a", r2, "o", r3, "F", "A">>,
    masdar_mimi |-> <<"m", "a", r1, "o", r2, "a", r3, "F", "A">>,
    ism_fael    |-> <<r1, "a", "A", r2, "i", r3, "N">>,
    ism_mafool  |-> <<"m", "a", r1, "o", r2, "u", "w", r3, "N">>,
    amr         |-> <<"A", "u", r1, "o", r2, "u", r3, "o">>,
    nahi        |-> <<"l", "a", "A", " ", "t", "a", r1, "o", r2, "u", r3, "o">>,
    zaman       |-> <<"m", "a", r1, "o", r2, "a", r3, "N">>,
    makan       |-> <<"m", "a", r1, "o", r2, "a", r3, "N">>,
    alat        |-> <<"m", "i", r1, "o", r2, "a", r3, "N">> ]

istilahi_forms(rule_number, r1, r2, r3) ==
  IF rule_number = 1 THEN istilahi_rule1(r1, r2, r3)
  ELSE IF rule_number = 2 THEN istilahi_rule2(r1, r2, r3)
  ELSE istilahi_else(r1, r2, r3)

istilahi_data(f) ==
  << <<"1. AlfEl AlmADy", f.past>>,
     <<"2. AlfEl AlmDArE", f.mudari>>,
     <<"3. AlmSdr", f.masdar>>,
     <<"4. AlmSdr Almymy", f.masdar_mimi>>,
     <<"5. Asm AlfAEl", f.ism_fael>>,
     <<"6. Asm AlmfEwl", f.ism_mafool>>,
     <<"7. fEl Al>mr", f.amr>>,
     <<"8. fEl Alnhy", f.nahi>>,
     <<"9. Asm AlzmAn", f.zaman>>,
     <<"10. Asm AlmkAn", f.makan>>,
     <<"11. Asm Al|lp", f.alat>> >>

(***************************************************************************)
(* generate_tasrif, mode "lughowiy"                                        *)
(***************************************************************************)
lughowiy_data(r1, r2, r3) ==
  << <<"huwa", <<r1, "a", r2, "a", r3, "a">> >>,
     <<"hmA (m)", <<r1, "a", r2, "a", r3, "a", "A">> >>,
     <<"hm", <<r1, "a", r2, "a", r3, "u", "w", "A">> >>,
     <<"hy", <<r1, "a", r2, "a", r3, "a", "t", "o">> >>,
     <<"hmA (f)", <<r1, "a", r2, "a", r3, "a", "t", "a", "A">> >>,
     <<"hn~", <<r1, "a", r2, "a", r3, "o", "n", "a">> >>,
     <<">nta", <<r1, "a", r2, "a", r3, "o", "t", "a">> >>,
     <<">ntmA (m)", <<r1, "a", r2, "a", r3, "o", "t", "u", "m", "a", "A">> >>,
     <<">ntm", <<r1, "a", r2, "a", r3, "o", "t", "u", "m", "o">> >>,
     <<">nti", <<r1, "a", r2, "a", r3, "o", "t", "i">> >>,
     <<">ntmA (f)", <<r1, "a", r2, "a", r3, "o", "t", "u", "m", "a", "A">> >>,
     <<">ntn~", <<r1, "a", r2, "a", r3, "o", "t", "u", "n", "a", "~">> >>,
     <<">nA", <<r1, "a", r2, "a", r3, "o", "t", "u">> >>,
     <<"nHn", <<r1, "a", r2, "a", r3, "o", "n", "a", "A">> >> >>

(***************************************************************************)
(* json.loads, on the characters of the model: whitespace, objects with    *)
(* at most one member, strings without escapes, numbers written with the   *)
(* digit 1.  A parsed value is represented by its text with the            *)
(* insignificant whitespace removed.                                       *)
(***************************************************************************)
ParseFail == [ok |-> FALSE, val |-> <<>>, rest |-> <<>>]

\* a string body up to the closing quote; a raw control character is rejected
RECURSIVE ScanString(_, _)
ScanString(s, acc) ==
  IF s = <<>> THEN ParseFail
  ELSE IF Head(s) = "\"" THEN [ok |-> TRUE, val |-> acc \o <<"\"">>, rest |-> Tail(s)]
  ELSE IF Head(s) \in {"\n", "\t"} THEN ParseFail
  ELSE ScanString(Tail(s), acc \o <<Head(s)>>)

ParseString(s) ==
  IF s # <<>> /\ Head(s) = "\"" THEN ScanString(Tail(s), <<"\"">>) ELSE ParseFail

RECURSIVE ScanDigits(_, _)
ScanDigits(s, acc) ==
  IF s # <<>> /\ Head(s) = "1" THEN ScanDigits(Tail(s), acc \o <<"1">>)
  ELSE [ok |-> TRUE, val |-> acc, rest |-> s]

RECURSIVE ParseValue(_)
ParseValue(s) ==
  IF s = <<>> THEN ParseFail
  ELSE IF Head(s) = "\"" THEN ParseString(s)
  ELSE IF Head(s) = "1" THEN ScanDigits(s, <<>>)
  ELSE IF Head(s) = "{" THEN
    LET a == LStrip(Tail(s)) IN
    IF a # <<>> /\ Head(a) = "}" THEN [ok |-> TRUE, val |-> <<"{", "}">>, rest |-> Tail(a)]
    ELSE LET k == ParseString(a) IN
      IF ~k.ok THEN ParseFail
      ELSE LET b == LStrip(k.rest) IN
        IF b = <<>> \/ Head(b) # ":" THEN ParseFail
        ELSE LET v == ParseValue(LStrip(Tail(b))) IN
          IF ~v.ok THEN ParseFail
          ELSE LET c == LStrip(v.rest) IN
            IF c # <<>> /\ Head(c) = "}"
            THEN [ok |-> TRUE, val |-> <<"{">> \o k.val \o <<":">> \o v.val \o <<"}">>,
                  rest |-> Tail(c)]
            ELSE ParseFail
  ELSE ParseFail

\* json.loads(content): the value, or JSONDecodeError (ok = FALSE)
json_loads(content) ==
  LET r == ParseValue(LStrip(content)) IN
  IF r.ok /\ LStrip(r.rest) = <<>> THEN [ok |-> TRUE, val |-> r.val]
  ELSE [ok |-> FALSE, val |-> <<>>]

(***************************************************************************)
(* analyze_arabic_morphology: what requests.post / raise_for_status /      *)
(* response.json() can hand back, and the handling of each.                *)
(* The backtick is written "'" in the model's strings.                     *)
(***************************************************************************)
BT == "'"
Fence == <<BT, BT, BT>>
JsonFence == Fence \o <<"j", "s", "o", "n">>

NoResult ==
  [kind |-> "none", json |-> <<>>, error |-> "", detail |-> "", has_raw |-> FALSE,
   raw_response |-> <<>>, analysis |-> <<>>, summary |-> ""]

\* a dict built by the function itself: error, (raw_response,) analysis, summary
ErrorResult(error, detail, summary) ==
  [NoResult EXCEPT !.kind = "error", !.error = error, !.detail = detail,
                   !.summary = summary]

Returned(value) == [raised |-> FALSE, exc |-> "", value |-> value]
Raised(exc) == [raised |-> TRUE, exc |-> exc, value |-> NoResult]

\* lines 93-96: the fence handling that rebinds content
strip_fence(content) ==
  IF StartsWith(content, JsonFence) THEN Strip(Remove(Remove(content, JsonFence), Fence))
  ELSE IF StartsWith(content, Fence) THEN Strip(Remove(content, Fence))
  ELSE content

\* lines 92-106: content is rebound before json.loads, and the except clause
\* reads the rebound name
parse_candidate(content) ==
  LET stripped == strip_fence(content)
      parsed == json_loads(stripped) IN
  IF parsed.ok THEN [NoResult EXCEPT !.kind = "json", !.json = parsed.val]
  ELSE [ErrorResult("Could not parse JSON response", "", "tE*r tHlyl AlnS b$kl SHyH")
          EXCEPT !.has_raw = TRUE, !.raw_response = stripped]

\* the try block of analyze_arabic_morphology, by outcome of the outbound call
analyze_arabic_morphology(text, o) ==
  CASE o.kind = "timeout" ->
         Returned(ErrorResult("Request timeout", "", "Antht mhlp AlTlb"))
    [] o.kind \in {"connection_error", "http_error"} ->
         Returned(ErrorResult("API request failed: ", o.kind, "Hdv xT> fy AlAtSAl bAlxdmp"))
    [] o.kind \in {"no_candidates_key", "empty_candidates"} ->
         Returned(ErrorResult("No response from Gemini API", "", "lm ytm AlHSwl ElY rd mn Alxdmp"))
    [] o.kind = "candidate_without_content" -> Raised("KeyError")
    [] o.kind = "candidate_text_not_str" -> Raised("AttributeError")
    [] o.kind = "candidate_text" -> Returned(parse_candidate(o.content))

(***************************************************************************)
(* HTTP responses.  ran records which generator the handler executed.      *)
(***************************************************************************)
NoResp ==
  [status |-> 0, error |-> "", message |-> "", success |-> FALSE, tasrif |-> <<>>,
   root |-> <<>>, input_text |-> <<>>, result |-> NoResult, ran |-> "none"]

ErrorResp(status, error, message) ==
  [NoResp EXCEPT !.status = status, !.error = error, !.message = message]

(***************************************************************************)
(* analyze_text                                                            *)
(***************************************************************************)
\* a plausible slip: the text is tested for emptiness without .strip()
arabic_text_unstripped(data) == data.text.s

\* line 153
arabic_text_of(data) == Strip(data.text.s)

\* the validation of lines 145-159: "post" when the handler goes on to
\* analyze_arabic_morphology, else "reject" with the response returned
analyze_validate(data) ==
  IF data.body = "undecodable"
  THEN [go |-> "reject", resp |-> ErrorResp(500, "Server error: 400 Bad Request", "Hdv xT> fy AlxAdm")]
  ELSE IF data.body = "falsy" \/ data.text.t = "absent"
  THEN [go |-> "reject", resp |-> ErrorResp(400, "No text provided", "yrjY <dxAl nS lltHlyl")]
  ELSE IF data.text.t # "str"
  THEN [go |-> "reject", resp |-> ErrorResp(500, "Server error: no attribute 'strip'", "Hdv xT> fy AlxAdm")]
  ELSE IF arabic_text_of(data) = <<>>
  THEN [go |-> "reject", resp |-> ErrorResp(400, "Empty text", "AlnS fArg")]
  ELSE [go |-> "post", resp |-> NoResp]

\* lines 161-173: the rest of the handler once the outbound call has ended
analyze_finish(text, o) ==
  LET r == analyze_arabic_morphology(text, o) IN
  IF r.raised
  THEN ErrorResp(500, "Server error: " \o r.exc, "Hdv xT> fy AlxAdm")
  ELSE [NoResp EXCEPT !.status = 200, !.success = TRUE, !.input_text = text,
                      !.result = r.value]

(***************************************************************************)
(* generate_tasrif                                                         *)
(***************************************************************************)
\* a plausible slip: every space-like character is dropped, not only " "
normalize_root_all_space(s) == SelectSeq(s, LAMBDA c : ~IsSpaceChar(c))

\* line 233: data['root'].strip().replace(' ', '')
normalize_root(s) == Remove(Strip(s), <<" ">>)

\* a plausible slip: the third slot taken from the end of the root
root_slots_last(root) == <<root[1], root[2], root[Len(root)]>>

\* line 239: r1, r2, r3 = root[0], root[1], root[2]
root_slots(root) == <<root[1], root[2], root[3]>>

ModeIs(mode, name) == mode.t = "str" /\ mode.m = name

TasrifOk(tasrif_data, root, ran) ==
  [NoResp EXCEPT !.status = 200, !.success = TRUE, !.tasrif = tasrif_data,
                 !.root = root, !.ran = ran]

\* a plausible slip: the mode is tested before the root
tasrif_dispatch_mode_first(root, mode) ==
  IF ~(ModeIs(mode, "istilahi") \/ ModeIs(mode, "lughowiy") \/ ModeIs(mode, "isim"))
  THEN ErrorResp(400, "Invalid mode", "")
  ELSE IF Len(root) < 3 THEN ErrorResp(400, "Invalid root", "")
  ELSE LET r == root_slots(root) IN
    IF ModeIs(mode, "istilahi")
    THEN TasrifOk(istilahi_data(istilahi_forms(get_rule_by_root(root), r[1], r[2], r[3])),
                  root, "istilahi")
    ELSE IF ModeIs(mode, "lughowiy")
    THEN TasrifOk(lughowiy_data(r[1], r[2], r[3]), root, "lughowiy")
    ELSE TasrifOk(generate_tasrif_isim(root), root, "isim")

\* lines 236-323, root being the normalized root
tasrif_dispatch(root, mode) ==
  IF Len(root) < 3 THEN ErrorResp(400, "Invalid root", "")
  ELSE LET r == root_slots(root) IN
    IF ModeIs(mode, "istilahi")
    THEN TasrifOk(istilahi_data(istilahi_forms(get_rule_by_root(root), r[1], r[2], r[3])),
                  root, "istilahi")
    ELSE IF ModeIs(mode, "lughowiy")
    THEN TasrifOk(lughowiy_data(r[1], r[2], r[3]), root, "lughowiy")
    ELSE IF ModeIs(mode, "isim")
    THEN TasrifOk(generate_tasrif_isim(root), root, "isim")
    ELSE ErrorResp(400, "Invalid mode", "")

\* lines 228-326
generate_tasrif(data) ==
  IF data.body = "undecodable" THEN ErrorResp(500, "Server error: 400 Bad Request", "")
  ELSE IF data.body = "falsy" \/ data.root.t = "absent" \/ data.mode.t = "absent"
  THEN ErrorResp(400, "Need root and mode", "")
  ELSE IF data.root.t # "str" THEN ErrorResp(500, "Server error: no attribute 'strip'", "")
  ELSE tasrif_dispatch(normalize_root(data.root.s), data.mode)

(***************************************************************************)
(* The inputs.                                                             *)
(***************************************************************************)
AbsentMode == [t |-> "absent", m |-> ""]
NonStrMode == [t |-> "other", m |-> ""]
StrMode(m) == [t |-> "str", m |-> m]

ModeValues ==
  {AbsentMode, NonStrMode} \cup
  {StrMode(m) : m \in {"istilahi", "lughowiy", "isim", "invalid", ""}}

RootAlphabet == {"k", "t", " ", "\t"}

\* every string over the alphabet, the known roots, and the known roots with a
\* character before or after them
RootStrings ==
  SeqsUpTo(RootAlphabet, MaxRootLen) \cup KnownRoots
    \cup {r \o <<c>> : r \in KnownRoots, c \in {"t", " ", "\t"}}
    \cup {<<c>> \o r : r \in KnownRoots, c \in {"t", " "}}

RootValues == {Absent, NonStr} \cup {Str(s) : s \in RootStrings}

TextStrings ==
  SeqsUpTo({"k", " "}, MaxTextLen) \cup {<<"\t">>, <<"\t", "k">>, <<"k", "\n">>, <<" ", "\t">>}

TextValues == {Absent, NonStr} \cup {Str(s) : s \in TextStrings}

\* the body of a POST: not decodable as JSON (get_json raises), falsy (null,
\* {}), or an object with the keys the handlers read
NoData == [body |-> "falsy", text |-> Absent, root |-> Absent, mode |-> AbsentMode]

AnalyzeBodies ==
  {[NoData EXCEPT !.body = "undecodable"], NoData}
    \cup {[NoData EXCEPT !.body = "object", !.text = t] : t \in TextValues}

TasrifBodies ==
  {[NoData EXCEPT !.body = "undecodable"], NoData}
    \cup {[NoData EXCEPT !.body = "object", !.root = r, !.mode = m] :
            r \in RootValues, m \in ModeValues}

\* candidate texts: an optional opening marker, a body, an optional closing marker
InnerTexts ==
  SeqsUpTo({"{", "}", "\"", "1", BT}, MaxInnerLen)
    \cup { <<"j", "s", "o", "n">>,
           <<"{", " ", "}">>,
           <<"{", "\"", "1", "\"", ":", "1", "}">>,
           <<"\"">> \o Fence \o <<"\"">>,
           <<"\"", "1">> \o JsonFence \o <<"\"">>,
           <<"{", "\"", "1", "\"", ":", "\"">> \o Fence \o <<"1", "\"", "}">> }

Openers == {<<>>, Fence, JsonFence, JsonFence \o <<"\n">>, Fence \o <<"\n">>}
Closers == {<<>>, Fence, <<"\n">> \o Fence, <<"\n">> \o Fence \o <<"\n">>}

Contents == {a \o b \o c : a \in Openers, b \in InnerTexts, c \in Closers}

NoOutcome == [kind |-> "none", content |-> <<>>]

ApiOutcomes ==
  {[NoOutcome EXCEPT !.kind = k] :
     k \in {"timeout", "connection_error", "http_error", "no_candidates_key",
            "empty_candidates", "candidate_without_content", "candidate_text_not_str"}}
    \cup {[kind |-> "candidate_text", content |-> c] : c \in Contents}

(***************************************************************************)
(* The state machine.                                                      *)
(*   phase  "idle", "awaiting" while analyze_text is blocked in            *)
(*          requests.post, "done" once the operation has returned          *)
(*   req    the request being served or last served                        *)
(*   resp   the response to it (status 0: none yet)                        *)
(*   posts  outbound calls made for req                                    *)
(*   fn     the last direct call of get_rule_by_root / generate_tasrif_isim*)
(* The service keeps nothing between requests: once an operation has       *)
(* returned, its locals are dropped and the next operation starts afresh.  *)
(***************************************************************************)
NoReq == [endpoint |-> "none", data |-> NoData, outcome |-> NoOutcome]
NoCall == [name |-> "none", arg |-> <<>>, rule |-> 0, out |-> <<>>]

Init ==
  /\ phase = "idle"
  /\ req = NoReq
  /\ resp = NoResp
  /\ posts = 0
  /\ fn = NoCall

\* POST /analyze answered without reaching analyze_arabic_morphology
AnalyzeReject(data) ==
  /\ phase = "idle"
  /\ analyze_validate(data).go = "reject"
  /\ req' = [NoReq EXCEPT !.endpoint = "analyze", !.data = data]
  /\ resp' = analyze_validate(data).resp
  /\ posts' = 0
  /\ phase' = "done"
  /\ UNCHANGED fn

\* POST /analyze up to requests.post (line 84)
AnalyzePost(data) ==
  /\ phase = "idle"
  /\ analyze_validate(data).go = "post"
  /\ req' = [NoReq EXCEPT !.endpoint = "analyze", !.data = data]
  /\ resp' = NoResp
  /\ posts' = 1
  /\ phase' = "awaiting"
  /\ UNCHANGED fn

\* requests.post ends with outcome o; the handler runs to its return
ApiReturn(o) ==
  /\ phase = "awaiting"
  /\ req' = [req EXCEPT !.outcome = o]
  /\ resp' = analyze_finish(arabic_text_of(req.data), o)
  /\ phase' = "done"
  /\ UNCHANGED <<posts, fn>>

\* POST /tasrif
Tasrif(data) ==
  /\ phase = "idle"
  /\ req' = [NoReq EXCEPT !.endpoint = "tasrif", !.data = data]
  /\ resp' = generate_tasrif(data)
  /\ posts' = 0
  /\ phase' = "done"
  /\ UNCHANGED fn

\* get_rule_by_root called on any string
CallRule(root) ==
  /\ phase = "idle"
  /\ fn' = [NoCall EXCEPT !.name = "get_rule_by_root", !.arg = root,
                          !.rule = get_rule_by_root(root)]
  /\ phase' = "done"
  /\ UNCHANGED <<req, resp, posts>>

\* generate_tasrif_isim called on any string
CallIsim(root) ==
  /\ phase = "idle"
  /\ fn' = [NoCall EXCEPT !.name = "generate_tasrif_isim", !.arg = root,
                          !.out = generate_tasrif_isim(root)]
  /\ phase' = "done"
  /\ UNCHANGED <<req, resp, posts>>

\* the operation has returned: its request-scoped state is dropped
Return ==
  /\ phase = "done"
  /\ phase' = "idle"
  /\ req' = NoReq /\ resp' = NoResp /\ posts' = 0 /\ fn' = NoCall

Next ==
  \/ phase = "idle" /\ \E data \in AnalyzeBodies : AnalyzeReject(data)
  \/ phase = "idle" /\ \E data \in AnalyzeBodies : AnalyzePost(data)
  \/ phase = "awaiting" /\ \E o \in ApiOutcomes : ApiReturn(o)
  \/ phase = "idle" /\ \E data \in TasrifBodies : Tasrif(data)
  \/ phase = "idle" /\ \E root \in RootStrings : CallRule(root)
  \/ phase = "idle" /\ \E root \in RootStrings : CallIsim(root)
  \/ Return

Spec == Init /\ [][Next]_vars

(***************************************************************************)
(* Properties.                                                             *)
(***************************************************************************)
AnalyzeDone == phase = "done" /\ req.endpoint = "analyze"
TasrifDone == phase = "done" /\ req.endpoint = "tasrif"

\* the text is present, a string, and non-empty after trimming
TextAccepted(data) ==
  data.body = "object" /\ data.text.t = "str" /\ Strip(data.text.s) # <<>>

\* the text is an empty or whitespace-only string
TextBlank(data) ==
  data.body = "object" /\ data.text.t = "str" /\ Strip(data.text.s) = <<>>

KnownModes == {"istilahi", "lughowiy", "isim"}
ModeKnown(mode) == mode.t = "str" /\ mode.m \in KnownModes

SpacesRemoved(s) == SelectSeq(s, LAMBDA c : c # " ")
TrimmedSpacesRemoved(s) == SpacesRemoved(Strip(s))

Labels(tasrif_data) == [i \in 1..Len(tasrif_data) |-> tasrif_data[i][1]]

\* what the generator selected by mode m returns for the normalized root r
GeneratorOutput(m, r) ==
  CASE m = "istilahi" ->
         istilahi_data(istilahi_forms(get_rule_by_root(r), r[1], r[2], r[3]))
    [] m = "lughowiy" -> lughowiy_data(r[1], r[2], r[3])
    [] m = "isim" -> generate_tasrif_isim(r)

\* C1: an /analyze request that passes input validation is answered 200 with
\* success true and a structured result whatever the external API does; every
\* external failure yields a result with an error field and analysis == [].
C1_ExternalFailureNever500 ==
  (AnalyzeDone /\ TextAccepted(req.data)) =>
    /\ resp.status = 200
    /\ resp.success
    /\ resp.result.kind \in {"json", "error"}
    /\ (req.outcome.kind # "candidate_text" =>
          /\ resp.result.kind = "error"
          /\ resp.result.error # ""
          /\ resp.result.analysis = <<>>)

\* C2: an /analyze request causes exactly one outbound call when its text is
\* present and non-empty after trimming, and none otherwise; a request whose
\* text is empty or whitespace-only is answered 400 with message "AlnS fArg"
\* (a missing text is answered 400 too); the count stays at one whatever the
\* outcome of the call (no retry).
C2_OneCallOrNone ==
  (phase \in {"awaiting", "done"} /\ req.endpoint = "analyze") =>
    IF TextAccepted(req.data) THEN posts = 1
    ELSE /\ posts = 0
         /\ phase = "done"
         /\ (TextBlank(req.data) =>
               resp.status = 400 /\ resp.message = "AlnS fArg")
         /\ (req.data.body = "falsy" \/ (req.data.body = "object" /\ req.data.text.t = "absent")
               => resp.status = 400)

\* a request whose outbound call timed out has been answered, after one call
C2_Witness ==
  AnalyzeDone /\ req.outcome.kind = "timeout" /\ posts = 1 /\ resp.status = 200

\* the request fields are strings where present
StringFields(data) ==
  data.body = "object" /\ data.root.t # "other" /\ data.mode.t # "other"

\* C3, as stated: a /tasrif request with string fields is answered 200 exactly
\* when root and mode are present, the root with its spaces removed has at
\* least 3 characters and the mode is known; otherwise 400 and no generator
\* runs; on success root is the root with spaces removed and tasrif the output
\* of the generator the mode selects.
C3_OkIffSpacesRemoved ==
  (TasrifDone /\ StringFields(req.data)) =>
    LET d == req.data
        ok == /\ d.root.t = "str" /\ ModeKnown(d.mode)
              /\ Len(SpacesRemoved(d.root.s)) >= 3 IN
    IF ok
    THEN /\ resp.status = 200 /\ resp.success
         /\ resp.root = SpacesRemoved(d.root.s)
         /\ resp.tasrif = GeneratorOutput(d.mode.m, resp.root)
    ELSE resp.status = 400 /\ resp.ran = "none"

\* C3, amended: the same with the normalized root being the root with its
\* leading and trailing whitespace trimmed and then its space characters
\* removed (other whitespace inside the root is kept and counted).
C3_OkIffNormalized ==
  (TasrifDone /\ StringFields(req.data)) =>
    LET d == req.data
        ok == /\ d.root.t = "str" /\ ModeKnown(d.mode)
              /\ Len(TrimmedSpacesRemoved(d.root.s)) >= 3 IN
    IF ok
    THEN /\ resp.status = 200 /\ resp.success
         /\ resp.root = TrimmedSpacesRemoved(d.root.s)
         /\ Len(resp.root) >= 3
         /\ resp.ran = d.mode.m
         /\ resp.tasrif = GeneratorOutput(d.mode.m, resp.root)
    ELSE resp.status = 400 /\ resp.ran = "none"

\* a success whose root was sent with a tab before it
C3_Witness ==
  /\ TasrifDone /\ resp.status = 200
  /\ Head(req.data.root.s) = "\t"
  /\ Len(resp.root) = Len(req.data.root.s) - 1

\* root and mode are both carried and the mode is not a known one
UnknownModeRequest(data) ==
  data.body = "object" /\ data.root.t # "absent" /\ data.mode.t # "absent"
    /\ ~ModeKnown(data.mode)

\* C4, as stated: a /tasrif request carrying root and mode with an unknown
\* mode is answered 400 with error "Invalid mode", whatever the string sent as
\* root.
C4_InvalidModeAnyRoot ==
  (TasrifDone /\ UnknownModeRequest(req.data) /\ req.data.root.t = "str") =>
    resp.status = 400 /\ resp.error = "Invalid mode"

\* C4, amended: such a request is answered 400 with error "Invalid mode" when
\* its root is a string whose normalized form has at least 3 characters; with
\* a shorter string root the root is rejected first (400, "Invalid root"), and
\* a root that is not a string ends in the 500 response.
C4_InvalidModeAfterRoot ==
  (TasrifDone /\ UnknownModeRequest(req.data)) =>
    IF req.data.root.t # "str" THEN resp.status = 500
    ELSE /\ resp.status = 400
         /\ resp.error = IF Len(TrimmedSpacesRemoved(req.data.root.s)) >= 3
                         THEN "Invalid mode" ELSE "Invalid root"

\* an unknown mode sent with a root that is too short
C4_Witness ==
  /\ TasrifDone /\ UnknownModeRequest(req.data) /\ req.data.root.t = "str"
  /\ Len(TrimmedSpacesRemoved(req.data.root.s)) < 3
  /\ resp.error = "Invalid root"

IstilahiLabels ==
  <<"1. AlfEl AlmADy", "2. AlfEl AlmDArE", "3. AlmSdr", "4. AlmSdr Almymy",
    "5. Asm AlfAEl", "6. Asm AlmfEwl", "7. fEl Al>mr", "8. fEl Alnhy",
    "9. Asm AlzmAn", "10. Asm AlmkAn", "11. Asm Al|lp">>

LughowiyLabels ==
  <<"huwa", "hmA (m)", "hm", "hy", "hmA (f)", "hn~", ">nta", ">ntmA (m)", ">ntm",
    ">nti", ">ntmA (f)", ">ntn~", ">nA", "nHn">>

IsimLabels ==
  <<"Almfrd (Singular)", "AlmvnY Alm*kr (Dual Masculine)",
    "AlmvnY Alm&nv (Dual Feminine)", "AljmE Alm*kr AlsAlm (Sound Masculine Plural)",
    "AljmE Alm&nv AlsAlm (Sound Feminine Plural)", "jmE Altksyr (Broken Plural)">>

\* C5: for a root of length >= 3 the tasrif result has 11 pairs in mode
\* istilahi, 14 in lughowiy and 6 in isim, with the labels and their order
\* fixed whatever the root and its rule number; generate_tasrif_isim called on
\* a root of fewer than 3 characters returns the empty sequence.
C5_ShapeByMode ==
  /\ (TasrifDone /\ resp.status = 200) =>
       /\ Len(resp.root) >= 3
       /\ (req.data.mode.m = "istilahi" =>
             Len(resp.tasrif) = 11 /\ Labels(resp.tasrif) = IstilahiLabels)
       /\ (req.data.mode.m = "lughowiy" =>
             Len(resp.tasrif) = 14 /\ Labels(resp.tasrif) = LughowiyLabels)
       /\ (req.data.mode.m = "isim" =>
             Len(resp.tasrif) = 6 /\ Labels(resp.tasrif) = IsimLabels)
       /\ \A i \in 1..Len(resp.tasrif) : Len(resp.tasrif[i]) = 2
  /\ (phase = "done" /\ fn.name = "generate_tasrif_isim") =>
       IF Len(fn.arg) < 3 THEN fn.out = <<>>
       ELSE Len(fn.out) = 6 /\ Labels(fn.out) = IsimLabels

\* generate_tasrif_isim has been called on a two-character root
C5_Witness ==
  /\ phase = "done" /\ fn.name = "generate_tasrif_isim"
  /\ Len(fn.arg) = 2 /\ fn.out = <<>>

\* C6: in mode istilahi a root whose rule number is 3, 4, 5 or 6 gets, form
\* for form, the sequence the rule-1 templates give for its three letters;
\* only rule number 2 selects other templates.
C6_Rules3To6AsRule1 ==
  (TasrifDone /\ resp.status = 200 /\ req.data.mode.m = "istilahi") =>
    LET r == resp.root
        family1 == istilahi_data(istilahi_rule1(r[1], r[2], r[3])) IN
    /\ (r \in KnownRoots /\ rule_map[r] \in 3..6 => resp.tasrif = family1)
    /\ (resp.tasrif # family1 <=> (r \in KnownRoots /\ rule_map[r] = 2))

\* an istilahi table for a root of rule 3, 4, 5 or 6
C6_Witness ==
  /\ TasrifDone /\ resp.status = 200 /\ req.data.mode.m = "istilahi"
  /\ resp.root \in KnownRoots /\ rule_map[resp.root] \in 3..6

\* the istilahi table of the normalized root made of the first three characters
\* of the answered root followed by tail
IstilahiOf(tail) ==
  tasrif_dispatch(SubSeq(resp.root, 1, 3) \o tail, req.data.mode).tasrif

RootTails == SeqsUpTo({"k", "t"}, 2)

\* C7, as stated: two roots of length >= 3 that agree on their first three
\* characters get identical istilahi sequences.
C7_SamePrefixSameTable ==
  (TasrifDone /\ resp.status = 200 /\ req.data.mode.m = "istilahi") =>
    \A tail \in RootTails : IstilahiOf(tail) = resp.tasrif

\* C7, amended: the three substitution slots are the first three characters,
\* but the rule number is looked up with the whole root: two roots of length
\* >= 3 that agree on their first three characters and have the same rule
\* number get identical istilahi sequences.
C7_SamePrefixSameRuleSameTable ==
  (TasrifDone /\ resp.status = 200 /\ req.data.mode.m = "istilahi") =>
    \A tail \in RootTails :
      get_rule_by_root(SubSeq(resp.root, 1, 3) \o tail) = get_rule_by_root(resp.root)
        => IstilahiOf(tail) = resp.tasrif

\* an istilahi table for a root of more than three characters
C7_Witness ==
  /\ TasrifDone /\ resp.status = 200 /\ req.data.mode.m = "istilahi"
  /\ Len(resp.root) > 3

\* the candidate text is an opening marker (json-fence or plain fence), valid
\* JSON and a closing fence
FenceBody(content) ==
  LET c == RStrip(content)
      open == IF StartsWith(c, JsonFence) THEN Len(JsonFence) ELSE Len(Fence) IN
  SubSeq(c, open + 1, Len(c) - Len(Fence))

IsFencedJson(content) ==
  LET c == RStrip(content) IN
  /\ StartsWith(c, Fence)
  /\ Len(c) >= (IF StartsWith(c, JsonFence) THEN Len(JsonFence) ELSE Len(Fence)) + Len(Fence)
  /\ SubSeq(c, Len(c) - Len(Fence) + 1, Len(c)) = Fence
  /\ json_loads(FenceBody(content)).ok

\* C8: a candidate text that is a fenced code block wrapping valid JSON is
\* stripped of its fence markers and parsed, and the parsed structure is the
\* result, with no error field added.
C8_FencedJsonReturned ==
  (AnalyzeDone /\ req.outcome.kind = "candidate_text" /\ IsFencedJson(req.outcome.content)) =>
    /\ resp.status = 200
    /\ resp.result.kind = "json"
    /\ resp.result.json = json_loads(FenceBody(req.outcome.content)).val

ExpectedRule(root) ==
  CASE root \in {<<"n","S","r">>, <<"k","t","b">>} -> 1
    [] root \in {<<"D","r","b">>, <<"j","l","s">>} -> 2
    [] root \in {<<"f","t","H">>, <<"*","h","b">>} -> 3
    [] root \in {<<"E","l","m">>, <<"$","r","b">>} -> 4
    [] root \in {<<"k","r","m">>, <<"H","s","n">>} -> 5
    [] root \in {<<"H","s","b">>, <<"w","r","v">>} -> 6
    [] OTHER -> 1

\* C9: get_rule_by_root returns an integer in 1..6 for every string: each of
\* the 12 known roots maps to its rule number, two roots per rule, and every
\* other string (the empty one, one that only begins with a known root) to 1.
C9_RuleSelector ==
  (phase = "done" /\ fn.name = "get_rule_by_root") =>
    /\ fn.rule \in 1..6
    /\ fn.rule = ExpectedRule(fn.arg)
    /\ Cardinality(KnownRoots) = 12
    /\ \A k \in 1..6 : Cardinality({r \in KnownRoots : get_rule_by_root(r) = k}) = 2

\* the selector has been called on a known root of rule 2 followed by one more
\* character
C9_Witness ==
  /\ phase = "done" /\ fn.name = "get_rule_by_root"
  /\ Len(fn.arg) = 4 /\ SubSeq(fn.arg, 1, 3) = <<"D","r","b">>
  /\ fn.rule = 1

\* C10: when the candidate text cannot be parsed, the result has error "Could
\* not parse JSON response", analysis == [] and raw_response equal to the text
\* of the candidate as received, also when it began with a fence marker.
C10_RawResponseIsOriginal ==
  (AnalyzeDone /\ resp.status = 200 /\ req.outcome.kind = "candidate_text"
     /\ resp.result.kind = "error") =>
    /\ resp.result.error = "Could not parse JSON response"
    /\ resp.result.analysis = <<>>
    /\ resp.result.has_raw
    /\ resp.result.raw_response = req.outcome.content

====
